---- MODULE Spec2Model ----
(***************************************************************************)
(* A model of the bt BitTorrent client: the download coordinator           *)
(* (src/bt/client.py, DownloadManager / Piece / Block), the peer session   *)
(* (src/bt/protocol.py, PeerConnection) and the stream framer              *)
(* (src/bt/protocol.py, PeerStreamIterator).                               *)
(*                                                                         *)
(* Conventions                                                             *)
(*  - Sizes are in model units: REQUEST_SIZE is scaled down to 2 units.    *)
(*  - A block's data is "good" (the bytes the torrent has at that place)   *)
(*    or "bad" (any other bytes).  SHA-1 is abstracted: the digest of a    *)
(*    piece matches iff every block holds "good" data.                     *)
(*  - An exception raised by a call is recorded in the call record         *)
(*    (call.err); the mutations made before the raise are kept, as in      *)
(*    Python.                                                              *)
(***************************************************************************)
EXTENDS Integers, Sequences, FiniteSets, TLC

VARIABLES
    \* ---- DownloadManager (client.py 88-251)
    torrent,          \* [length, piece_length] of torrent.info
    pieces,           \* piece index -> sequence of Block records
    missing_pieces,   \* list of piece indices
    ongoing_pieces,   \* list of piece indices
    have_pieces,      \* list of piece indices
    pending_blocks,   \* list of PendingRequest [piece, offset, added]
    peers,            \* dict peer_id -> bitfield (set of piece indices)
    file,             \* piece index -> bytes written at index * piece_length, <<>> for none
    now,              \* the clock read by time.time()
    call,             \* the last call made on the coordinator, with its outcome
    \* ---- DownloadManager.make_pieces on arbitrary torrents (client.py 166-188)
    mk_in,            \* [length, piece_length, request_size]
    mk_out,           \* [err, pieces], err = "unset" before the call
    \* ---- PeerStreamIterator (protocol.py 43-193)
    fr_frames,        \* the messages the peer encoded onto the stream
    fr_rest,          \* bytes of the stream not yet returned by reader.read
    buffer,           \* PeerStreamIterator.buffer
    fr_out,           \* the messages yielded so far
    fr_state,         \* "iterating", "ended" (StopAsyncIteration), "hung"
    \* ---- PeerConnection (protocol.py 196-372) and its peer queue
    pc,               \* where the task of start() stands
    current_state,    \* PeerConnection.current_state, a list
    remote_id,        \* PeerConnection.remote_id
    writer,           \* "none", "open", "closed"
    sent,             \* the kinds of the messages written to the peer, in order
    handled,          \* how many messages handle_message has been given
    rcvd_unchoke,     \* an Unchoke message has been handled
    q_size,           \* available_peers: addresses waiting
    q_unfinished      \* available_peers: get()s not yet answered by task_done()

dmvars == <<torrent, pieces, missing_pieces, ongoing_pieces, have_pieces,
            pending_blocks, peers, file, now, call>>

mkvars == <<mk_in, mk_out>>

frvars == <<fr_frames, fr_rest, buffer, fr_out, fr_state>>

ssvars == <<pc, current_state, remote_id, writer, sent, handled, rcvd_unchoke,
            q_size, q_unfinished>>

vars == <<dmvars, mkvars, frvars, ssvars>>

\* ------------------------------------------------------------------ bounds

MaxPeers == 2
MaxLength == 6
MaxTime == 1
\* make_pieces inputs
MaxMkLength == 12
MaxMkPieceLength == 6
MaxMkRequestSize == 3
\* framer: frames on a stream, messages demanded from the iterator
MaxFrames == 2
MaxYield == 3
\* session: addresses the tracker returned, messages one session is given
MaxQueue == 2
MaxMsgs == 3

\* REQUEST_SIZE (bt/message.py, imported at client.py:15), 2^14 scaled to 2.
REQUEST_SIZE == 2
\* The spec's MAX_PENDING_MS (the code reads self.max_pending_time, which
\* is never set), in clock ticks: a request stamped at an earlier tick
\* than the current one has been pending for longer than MAX_PENDING_MS.
MAX_PENDING_MS == 0

PeerIds == 1..MaxPeers
\* torrent.info.piece_length: two blocks per piece
PieceLengths == {2 * REQUEST_SIZE}
DataValues == {"good", "bad"}

None == "None"
\* None where the value is an index, an offset or a peer id
NoIndex == -1
\* None where the value is a Block
NoBlock == [piece |-> NoIndex, offset |-> NoIndex]
Missing == "Missing"
Pending == "Pending"
Retrieved == "Retrieved"

\* ----------------------------------------------------------------- helpers

CeilDiv(a, b) == (a + b - 1) \div b

Range(s) == {s[i] : i \in 1..Len(s)}

RemoveAt(s, i) == SubSeq(s, 1, i - 1) \o SubSeq(s, i + 1, Len(s))

\* list.remove(x): deletes the first occurrence
RemoveFirst(s, x) ==
    IF x \in Range(s)
    THEN RemoveAt(s, CHOOSE i \in 1..Len(s) : s[i] = x /\ \A j \in 1..(i-1) : s[j] # x)
    ELSE s

\* index of the first element of s satisfying P, 0 when there is none
FirstIndex(s, P(_)) ==
    IF \E i \in 1..Len(s) : P(s[i])
    THEN CHOOSE i \in 1..Len(s) : P(s[i]) /\ \A j \in 1..(i-1) : ~P(s[j])
    ELSE 0

\* ------------------------------------------------------------- Block, Piece

Block(piece, offset, length) ==
    [piece |-> piece, offset |-> offset, length |-> length,
     status |-> Missing, data |-> None]

\* Piece.reset: every block back to Missing (data is left as it is)
Piece_reset(blocks) ==
    [i \in 1..Len(blocks) |-> [blocks[i] EXCEPT !.status = Missing]]

\* Piece.next_request taking the first block that is not Retrieved, Pending or not
Piece_next_request_again(blocks) ==
    FirstIndex(blocks, LAMBDA b : b.status # Retrieved)

\* Piece.next_request: index of the first Missing block, 0 for None
Piece_next_request(blocks) ==
    FirstIndex(blocks, LAMBDA b : b.status = Missing)

\* Piece.block_received: index of the first block with that offset, 0 when
\* no block matches (the code then calls the undefined name `logging`)
Piece_block_received(blocks, offset) ==
    FirstIndex(blocks, LAMBDA b : b.offset = offset)

Piece_is_complete(blocks) ==
    \A i \in 1..Len(blocks) : blocks[i].status = Retrieved

\* Piece.data: the blocks' data in offset order (blocks are built in offset
\* order by make_pieces and never reordered)
Piece_data(blocks) == [i \in 1..Len(blocks) |-> blocks[i].data]

\* Piece.is_hash_matching, SHA-1 abstracted
Piece_is_hash_matching(blocks) ==
    \A i \in 1..Len(blocks) : blocks[i].data = "good"

\* -------------------------------------------------------------- make_pieces

\* len(torrent.info.pieces): one digest per piece of the file
TotalPieces(length, piece_length) == CeilDiv(length, piece_length)

\* DownloadManager.make_pieces; err = "NameError" models `block[-1] = ...`
make_pieces(length, piece_length, request_size) ==
    LET total_pieces == TotalPieces(length, piece_length)
        total_piece_blocks == CeilDiv(piece_length, request_size)
        last_length == length % piece_length
        num_blocks == CeilDiv(last_length, request_size)
        blocksOf(index, n) ==
            [k \in 1..n |-> Block(index, (k - 1) * request_size, request_size)]
    IN  IF last_length % request_size > 0
        THEN [err |-> "NameError", pieces |-> <<>>]
        ELSE [err |-> None,
              pieces |-> [index \in 0..(total_pieces - 1) |->
                            IF index < total_pieces - 1
                            THEN blocksOf(index, total_piece_blocks)
                            ELSE blocksOf(index, num_blocks)]]

\* ---------------------------------------------------------- DownloadManager

DM == [pieces |-> pieces, missing_pieces |-> missing_pieces,
       ongoing_pieces |-> ongoing_pieces, have_pieces |-> have_pieces,
       pending_blocks |-> pending_blocks, peers |-> peers, file |-> file]

SetDM(d) ==
    /\ pieces' = d.pieces
    /\ missing_pieces' = d.missing_pieces
    /\ ongoing_pieces' = d.ongoing_pieces
    /\ have_pieces' = d.have_pieces
    /\ pending_blocks' = d.pending_blocks
    /\ peers' = d.peers
    /\ file' = d.file

\* DownloadManager.__init__ for a torrent whose construction succeeds
NewDM(length, piece_length) ==
    LET ps == make_pieces(length, piece_length, REQUEST_SIZE).pieces
        n == TotalPieces(length, piece_length)
    IN  [pieces |-> ps,
         missing_pieces |-> [i \in 1..n |-> i - 1],
         ongoing_pieces |-> <<>>,
         have_pieces |-> <<>>,
         pending_blocks |-> <<>>,
         peers |-> <<>>,
         file |-> [p \in 0..(n - 1) |-> <<>>]]

total_pieces == TotalPieces(torrent.length, torrent.piece_length)

\* DownloadManager.complete
complete == Len(have_pieces) = total_pieces

\* DownloadManager.add_peer
add_peer(d, peer_id, bitfield) ==
    [d EXCEPT !.peers = [q \in (DOMAIN d.peers) \cup {peer_id} |->
                            IF q = peer_id THEN bitfield ELSE d.peers[q]]]

\* remove_from_pending_pieces with the `del self.pending_blocks[index]` left out
remove_from_pending_pieces_kept(d, piece_index, block_offset) == d

\* DownloadManager.remove_from_pending_pieces
remove_from_pending_pieces(d, piece_index, block_offset) ==
    LET i == FirstIndex(d.pending_blocks,
                        LAMBDA r : r.piece = piece_index /\ r.offset = block_offset)
    IN  IF i = 0 THEN d
        ELSE [d EXCEPT !.pending_blocks = RemoveAt(d.pending_blocks, i)]

\* DownloadManager._write
DM_write(d, p) == [d EXCEPT !.file[p] = Piece_data(d.pieces[p])]

\* DownloadManager.update_ongoing_pieces, the branch `if piece:` for a piece
\* found in ongoing_pieces: [dm, res, err]
ongoing_piece_received(d, piece_index, block_offset, data) ==
    LET k == Piece_block_received(d.pieces[piece_index], block_offset)
    IN  IF k = 0
        THEN [dm |-> d, res |-> NoIndex, err |-> "NameError"]
        ELSE LET d1 == [d EXCEPT !.pieces[piece_index][k].status = Retrieved,
                                 !.pieces[piece_index][k].data = data]
                 bs == d1.pieces[piece_index]
             IN  IF ~Piece_is_complete(bs)
                 THEN [dm |-> d1, res |-> NoIndex, err |-> None]
                 ELSE IF Piece_is_hash_matching(bs)
                 THEN [dm |-> [DM_write(d1, piece_index) EXCEPT
                                 !.ongoing_pieces =
                                     RemoveFirst(d1.ongoing_pieces, piece_index)],
                       res |-> piece_index, err |-> None]
                 ELSE [dm |-> [d1 EXCEPT !.pieces[piece_index] = Piece_reset(bs)],
                       res |-> NoIndex, err |-> None]

\* update_ongoing_pieces with `piece = pieces[0]`, the guard `if pieces else None` left out
update_ongoing_pieces_unguarded(d, piece_index, block_offset, data) ==
    IF piece_index \notin Range(d.ongoing_pieces)
    THEN [dm |-> d, res |-> NoIndex, err |-> "IndexError"]
    ELSE ongoing_piece_received(d, piece_index, block_offset, data)

\* DownloadManager.update_ongoing_pieces: [dm, res, err]
update_ongoing_pieces(d, piece_index, block_offset, data) ==
    IF piece_index \notin Range(d.ongoing_pieces)
    THEN [dm |-> d, res |-> NoIndex, err |-> None]
    ELSE ongoing_piece_received(d, piece_index, block_offset, data)

\* DownloadManager.on_block_complete: [dm, err].  A piece returned by
\* update_ongoing_pieces leads to self.update_have_pieces(...), a method
\* the class does not have (it defines update_have_piece): AttributeError.
on_block_complete(d, peer_id, piece_index, block_offset, data) ==
    LET d1 == remove_from_pending_pieces(d, piece_index, block_offset)
        r == update_ongoing_pieces(d1, piece_index, block_offset, data)
    IN  IF r.err # None THEN [dm |-> r.dm, err |-> r.err]
        ELSE IF r.res # NoIndex THEN [dm |-> r.dm, err |-> "AttributeError"]
        ELSE [dm |-> r.dm, err |-> None]

\* DownloadManager._expired_request: [block, err].  The first pending
\* request whose piece the peer has makes the code read
\* self.max_pending_time, an attribute that is never set: AttributeError.
expired_request(d, peer_id, current) ==
    IF \E i \in 1..Len(d.pending_blocks) :
          d.pending_blocks[i].piece \in d.peers[peer_id]
    THEN [block |-> NoBlock, err |-> "AttributeError"]
    ELSE [block |-> NoBlock, err |-> None]

\* DownloadManager._next_ongoing: [dm, block]
next_ongoing(d, peer_id, current) ==
    LET i == FirstIndex(d.ongoing_pieces,
                        LAMBDA p : p \in d.peers[peer_id]
                                   /\ Piece_next_request(d.pieces[p]) # 0)
    IN  IF i = 0 THEN [dm |-> d, block |-> NoBlock]
        ELSE LET p == d.ongoing_pieces[i]
                 k == Piece_next_request(d.pieces[p])
                 b == d.pieces[p][k]
             IN  [dm |-> [d EXCEPT !.pieces[p][k].status = Pending,
                                   !.pending_blocks = Append(@,
                                       [piece |-> p, offset |-> b.offset,
                                        added |-> current])],
                  block |-> [piece |-> p, offset |-> b.offset]]

\* _next_missing without the test `self.peers[peer_id][piece.index]`
next_missing_unfiltered(d, peer_id) ==
    LET i == IF d.missing_pieces = <<>> THEN 0 ELSE 1
    IN  IF i = 0 THEN [dm |-> d, block |-> NoBlock]
        ELSE LET p == d.missing_pieces[i]
                 k == Piece_next_request(d.pieces[p])
                 d1 == [d EXCEPT !.missing_pieces = RemoveAt(@, i),
                                 !.ongoing_pieces = Append(@, p)]
             IN  IF k = 0 THEN [dm |-> d1, block |-> NoBlock]
                 ELSE [dm |-> [d1 EXCEPT !.pieces[p][k].status = Pending],
                       block |-> [piece |-> p, offset |-> d.pieces[p][k].offset]]

\* DownloadManager._next_missing: [dm, block]
next_missing(d, peer_id) ==
    LET i == FirstIndex(d.missing_pieces, LAMBDA p : p \in d.peers[peer_id])
    IN  IF i = 0 THEN [dm |-> d, block |-> NoBlock]
        ELSE LET p == d.missing_pieces[i]
                 k == Piece_next_request(d.pieces[p])
                 d1 == [d EXCEPT !.missing_pieces = RemoveAt(@, i),
                                 !.ongoing_pieces = Append(@, p)]
             IN  IF k = 0 THEN [dm |-> d1, block |-> NoBlock]
                 ELSE [dm |-> [d1 EXCEPT !.pieces[p][k].status = Pending],
                       block |-> [piece |-> p, offset |-> d.pieces[p][k].offset]]

\* DownloadManager.next_request: [dm, block, err]
next_request(d, peer_id, current) ==
    IF peer_id \notin DOMAIN d.peers
    THEN [dm |-> d, block |-> NoBlock, err |-> None]
    ELSE LET e == expired_request(d, peer_id, current)
         IN  IF e.err # None THEN [dm |-> d, block |-> NoBlock, err |-> e.err]
             ELSE IF e.block # NoBlock THEN [dm |-> d, block |-> e.block, err |-> None]
             ELSE LET o == next_ongoing(d, peer_id, current)
                  IN  IF o.block # NoBlock
                      THEN [dm |-> o.dm, block |-> o.block, err |-> None]
                      ELSE LET m == next_missing(o.dm, peer_id)
                           IN  [dm |-> m.dm, block |-> m.block, err |-> None]

\* --------------------------------------- the parts a specification leaves out

MkIdle == mk_in = [length |-> 0, piece_length |-> 0, request_size |-> 0]
          /\ mk_out = [err |-> "unset", pieces |-> <<>>]

FrIdle == fr_frames = <<>> /\ fr_rest = <<>> /\ buffer = <<>>
          /\ fr_out = <<>> /\ fr_state = "idle"

SsIdle ==
    /\ pc = "idle" /\ current_state = <<>> /\ remote_id = NoIndex
    /\ writer = "none" /\ sent = <<>> /\ handled = 0 /\ rcvd_unchoke = FALSE
    /\ q_size = 0 /\ q_unfinished = 0

DMIdle ==
    /\ torrent = [length |-> 0, piece_length |-> 0]
    /\ pieces = <<>>
    /\ missing_pieces = <<>>
    /\ ongoing_pieces = <<>>
    /\ have_pieces = <<>>
    /\ pending_blocks = <<>>
    /\ peers = <<>>
    /\ file = <<>>
    /\ now = 0

\* ------------------------------------------------- coordinator, called directly

NoCall == [op |-> "init", peer |-> NoIndex, piece |-> NoIndex, offset |-> NoIndex,
           data |-> None, ret |-> NoBlock, err |-> None]

Torrents ==
    {t \in [length : 1..MaxLength, piece_length : PieceLengths] :
        make_pieces(t.length, t.piece_length, REQUEST_SIZE).err = None}

Init ==
    /\ torrent \in Torrents
    /\ LET d == NewDM(torrent.length, torrent.piece_length)
       IN  /\ pieces = d.pieces
           /\ missing_pieces = d.missing_pieces
           /\ ongoing_pieces = d.ongoing_pieces
           /\ have_pieces = d.have_pieces
           /\ pending_blocks = d.pending_blocks
           /\ peers = d.peers
           /\ file = d.file
    /\ now = 0
    /\ call = NoCall
    /\ MkIdle
    /\ FrIdle
    /\ SsIdle

PieceIdx == 0..(total_pieces - 1)

\* the offsets of the blocks of a full piece
Offsets == {(k - 1) * REQUEST_SIZE : k \in 1..CeilDiv(torrent.piece_length, REQUEST_SIZE)}

Tick ==
    /\ now < MaxTime
    /\ now' = now + 1
    /\ UNCHANGED <<torrent, pieces, missing_pieces, ongoing_pieces, have_pieces,
                   pending_blocks, peers, file, call, mkvars, frvars, ssvars>>

AddPeer ==
    \E peer \in PeerIds, bitfield \in SUBSET PieceIdx :
        /\ SetDM(add_peer(DM, peer, bitfield))
        /\ call' = [NoCall EXCEPT !.op = "add_peer", !.peer = peer]
        /\ UNCHANGED <<torrent, now, mkvars, frvars, ssvars>>

NextRequest ==
    \E peer \in PeerIds :
        LET r == next_request(DM, peer, now)
        IN  /\ SetDM(r.dm)
            /\ call' = [NoCall EXCEPT !.op = "next_request", !.peer = peer,
                                      !.ret = r.block, !.err = r.err]
            /\ UNCHANGED <<torrent, now, mkvars, frvars, ssvars>>

OnBlockComplete ==
    \* peer_id is only logged by on_block_complete: it is not enumerated
    \E p \in PieceIdx, off \in Offsets, data \in DataValues :
        LET r == on_block_complete(DM, NoIndex, p, off, data)
        IN  /\ SetDM(r.dm)
            /\ call' = [NoCall EXCEPT !.op = "on_block_complete", !.piece = p,
                                      !.offset = off, !.data = data, !.err = r.err]
            /\ UNCHANGED <<torrent, now, mkvars, frvars, ssvars>>

Next == Tick \/ AddPeer \/ NextRequest \/ OnBlockComplete

Spec == Init /\ [][Next]_vars

\* ------------------------------------------ make_pieces on arbitrary torrents

InitMake ==
    /\ mk_in \in [length : 1..MaxMkLength, piece_length : 1..MaxMkPieceLength,
                  request_size : 1..MaxMkRequestSize]
    /\ mk_out = [err |-> "unset", pieces |-> <<>>]
    /\ DMIdle
    /\ call = NoCall
    /\ FrIdle
    /\ SsIdle

MakePieces ==
    /\ mk_out.err = "unset"
    /\ mk_out' = make_pieces(mk_in.length, mk_in.piece_length, mk_in.request_size)
    /\ UNCHANGED <<mk_in, dmvars, frvars, ssvars>>

SpecMake == InitMake /\ [][MakePieces]_vars

\* the length the torrent gives piece `index`
PieceBytes(length, piece_length, index) ==
    IF index < TotalPieces(length, piece_length) - 1
    THEN piece_length
    ELSE length - piece_length * (TotalPieces(length, piece_length) - 1)

SumLengths(blocks) ==
    LET Sum[i \in 0..Len(blocks)] == IF i = 0 THEN 0 ELSE Sum[i - 1] + blocks[i].length
    IN  Sum[Len(blocks)]

\* C8: make_pieces succeeds for every torrent, and the blocks of each piece
\* are contiguous from offset 0 with lengths adding up to the piece's length.
C8_BlockTotality ==
    mk_out.err # "unset" =>
        /\ mk_out.err = None
        /\ DOMAIN mk_out.pieces = 0..(TotalPieces(mk_in.length, mk_in.piece_length) - 1)
        /\ \A index \in DOMAIN mk_out.pieces :
              LET blocks == mk_out.pieces[index]
              IN  /\ \A k \in 1..Len(blocks) :
                        /\ blocks[k].length > 0
                        /\ blocks[k].offset = SumLengths(SubSeq(blocks, 1, k - 1))
                  /\ SumLengths(blocks)
                        = PieceBytes(mk_in.length, mk_in.piece_length, index)

\* ----------------------------------------------------------- wire messages

\* PeerStreamIterator.CHUNK_SIZE
CHUNK_SIZE == 10240

\* MessageID values (bt/message.py, after the spec's table of ids)
IdChoke == 0
IdUnchoke == 1
IdInterested == 2
IdNotInterested == 3
IdHave == 4
\* an id no MessageID has
IdUnknown == 9

Msg(kind, index) == [kind |-> kind, index |-> index]
NoMsg == Msg("None", NoIndex)
KeepAliveMessage == Msg("KeepAlive", NoIndex)
ChokeMessage == Msg("Choke", NoIndex)
UnchokeMessage == Msg("Unchoke", NoIndex)
InterestedMessage == Msg("Interested", NoIndex)
NotInterestedMessage == Msg("NotInterested", NoIndex)
HaveMessage(index) == Msg("Have", index)
\* a frame with an unsupported id: what the peer sent, never a parse result
UnknownMessage == Msg("Unknown", NoIndex)

\* struct.pack('>I', n) and struct.unpack('>I', b)[0]
PackU32(n) == << (n \div 16777216) % 256, (n \div 65536) % 256,
                 (n \div 256) % 256, n % 256 >>
UnpackU32(b) == b[1] * 16777216 + b[2] * 65536 + b[3] * 256 + b[4]

\* Message.encode of bt/message.py, after the spec's wire format: a 4-byte
\* big-endian length prefix, the id, the payload
Encode(m) ==
    CASE m.kind = "KeepAlive" -> PackU32(0)
      [] m.kind = "Choke" -> PackU32(1) \o <<IdChoke>>
      [] m.kind = "Unchoke" -> PackU32(1) \o <<IdUnchoke>>
      [] m.kind = "Interested" -> PackU32(1) \o <<IdInterested>>
      [] m.kind = "NotInterested" -> PackU32(1) \o <<IdNotInterested>>
      [] m.kind = "Have" -> PackU32(5) \o <<IdHave>> \o PackU32(m.index)
      [] m.kind = "Unknown" -> PackU32(1) \o <<IdUnknown>>

\* HaveMessage.decode of bt/message.py, struct.unpack('>IbI', data): the data
\* must be the 9 bytes of the frame, else struct.error
HaveMessage_decode(data) ==
    IF Len(data) = 9
    THEN [msg |-> HaveMessage(UnpackU32(SubSeq(data, 6, 9))), err |-> None]
    ELSE [msg |-> NoMsg, err |-> "struct.error"]

RECURSIVE Flatten(_)
Flatten(ss) == IF ss = <<>> THEN <<>> ELSE Head(ss) \o Flatten(Tail(ss))

\* Python's s[i:] for i >= 0
SliceFrom(s, i) == IF i >= Len(s) THEN <<>> ELSE SubSeq(s, i + 1, Len(s))
\* Python's s[:i] for i >= 0
SliceTo(s, i) == IF i >= Len(s) THEN s ELSE SubSeq(s, 1, i)

\* ------------------------------------------------------ PeerStreamIterator

\* PeerStreamIterator.parse: [msg, buffer, err]; msg = NoMsg is `return None`.
\* The ids decoded by bt/message.py from a payload (BitField, Piece, Request,
\* Cancel) take the same path as Have and are left out of the streams here.
parse(buf) ==
    LET header_length == 4
        message_length == UnpackU32(SubSeq(buf, 1, 4))
        message_id == buf[5]
        consumed == SliceFrom(buf, header_length + message_length)
        data == SliceTo(buf, header_length + message_length)
    IN  IF Len(buf) > 4
        THEN IF message_length = 0
             THEN [msg |-> KeepAliveMessage, buffer |-> buf, err |-> None]
             ELSE IF Len(buf) >= message_length
             THEN CASE message_id = IdInterested ->
                         [msg |-> InterestedMessage, buffer |-> consumed, err |-> None]
                    [] message_id = IdNotInterested ->
                         [msg |-> NotInterestedMessage, buffer |-> consumed, err |-> None]
                    [] message_id = IdChoke ->
                         [msg |-> ChokeMessage, buffer |-> consumed, err |-> None]
                    [] message_id = IdUnchoke ->
                         [msg |-> UnchokeMessage, buffer |-> consumed, err |-> None]
                    [] message_id = IdHave ->
                         [msg |-> HaveMessage_decode(data).msg, buffer |-> consumed,
                          err |-> HaveMessage_decode(data).err]
                    [] OTHER -> [msg |-> NoMsg, buffer |-> buf, err |-> None]
             ELSE [msg |-> NoMsg, buffer |-> buf, err |-> None]
        ELSE [msg |-> NoMsg, buffer |-> buf, err |-> None]

\* PeerStreamIterator.__anext__ when self.buffer is not empty: a message is
\* returned; an exception of parse ends the iteration (`except Exception`);
\* parse returning None leaves the buffer as it is and the `while True` loop
\* parses it again, for ever, without awaiting: [msg, buffer, state]
anext_buffered(buf) ==
    LET r == parse(buf)
    IN  IF r.err # None THEN [msg |-> NoMsg, buffer |-> r.buffer, state |-> "ended"]
        ELSE IF r.msg # NoMsg
        THEN [msg |-> r.msg, buffer |-> r.buffer, state |-> "iterating"]
        ELSE [msg |-> NoMsg, buffer |-> buf, state |-> "hung"]

\* PeerStreamIterator.__anext__ when self.buffer is empty and reader.read
\* returned `data`: a message parsed from it is returned, anything else
\* (no data, no message yet) raises StopAsyncIteration
anext_read(data) ==
    IF data = <<>> THEN [msg |-> NoMsg, buffer |-> <<>>, state |-> "ended"]
    ELSE LET r == parse(data)
         IN  IF r.err = None /\ r.msg # NoMsg
             THEN [msg |-> r.msg, buffer |-> r.buffer, state |-> "iterating"]
             ELSE [msg |-> NoMsg, buffer |-> r.buffer, state |-> "ended"]

\* what reader.read(CHUNK_SIZE) may return: some first bytes of what is left
\* of the stream, or b'' at its end
Reads(rest) ==
    IF rest = <<>> THEN {<<>>}
    ELSE {SubSeq(rest, 1, n) : n \in 1..(IF Len(rest) < CHUNK_SIZE THEN Len(rest) ELSE CHUNK_SIZE)}

FrameKinds == {KeepAliveMessage, ChokeMessage, UnchokeMessage, InterestedMessage,
               NotInterestedMessage, HaveMessage(1), UnknownMessage}

Streams == UNION {[1..n -> FrameKinds] : n \in 0..MaxFrames}

\* PeerStreamIterator(reader, initial): `initial` is what the handshake read
\* beyond its 68 bytes, any first part of the stream
InitFramer ==
    /\ fr_frames \in Streams
    /\ \E n \in 0..Len(Flatten([i \in 1..Len(fr_frames) |-> Encode(fr_frames[i])])) :
          LET bytes == Flatten([i \in 1..Len(fr_frames) |-> Encode(fr_frames[i])])
          IN  /\ buffer = SliceTo(bytes, n)
              /\ fr_rest = SliceFrom(bytes, n)
    /\ fr_out = <<>>
    /\ fr_state = "iterating"
    /\ DMIdle
    /\ call = NoCall
    /\ MkIdle
    /\ SsIdle

\* one `async for` demand on the iterator
Anext ==
    /\ fr_state = "iterating"
    /\ Len(fr_out) < MaxYield
    /\ IF buffer # <<>>
       THEN LET r == anext_buffered(buffer)
            IN  /\ buffer' = r.buffer
                /\ fr_state' = r.state
                /\ fr_out' = IF r.msg # NoMsg THEN Append(fr_out, r.msg) ELSE fr_out
                /\ fr_rest' = fr_rest
       ELSE \E data \in Reads(fr_rest) :
            LET r == anext_read(data)
            IN  /\ buffer' = r.buffer
                /\ fr_state' = r.state
                /\ fr_out' = IF r.msg # NoMsg THEN Append(fr_out, r.msg) ELSE fr_out
                /\ fr_rest' = SliceFrom(fr_rest, Len(data))
    /\ UNCHANGED <<fr_frames, dmvars, mkvars, ssvars>>

SpecFramer == InitFramer /\ [][Anext]_vars

IsPrefix(s, t) == Len(s) <= Len(t) /\ s = SubSeq(t, 1, Len(s))

\* C7: for a stream of valid frames, however its bytes are split into reads
\* and initial buffer, the iterator yields the stream's messages in order,
\* never stalls, and has yielded all of them when it ends.
C7_ChunkingIndependence ==
    (\A i \in 1..Len(fr_frames) : fr_frames[i] # UnknownMessage) =>
        /\ IsPrefix(fr_out, fr_frames)
        /\ fr_state # "hung"
        /\ fr_state = "ended" => fr_out = fr_frames

\* ------------------------------------------------ claims on the coordinator

\* a step of Spec that makes the call `op` (Tick only advances the clock)
CallStep(op) == now' = now /\ call'.op = op

Occurrences(s, x) == Cardinality({i \in 1..Len(s) : s[i] = x})

HasBlock(p, off) == Piece_block_received(pieces[p], off) # 0

\* the delivery of `data` for block (p, off) would make ongoing piece p complete
Completes(p, off) ==
    /\ p \in Range(ongoing_pieces)
    /\ HasBlock(p, off)
    /\ \A i \in 1..Len(pieces[p]) :
          pieces[p][i].offset # off => pieces[p][i].status = Retrieved

\* ... and the assembled data would match the digest
CompletesValid(p, off, data) ==
    /\ Completes(p, off)
    /\ data = "good"
    /\ \A i \in 1..Len(pieces[p]) :
          pieces[p][i].offset # off => pieces[p][i].data = "good"

\* C1: every piece is in exactly one of missing_pieces, ongoing_pieces and
\* have_pieces, so the three lengths add up to total_pieces.
C1_Partition ==
    /\ Len(missing_pieces) + Len(ongoing_pieces) + Len(have_pieces) = total_pieces
    /\ \A p \in PieceIdx :
          Occurrences(missing_pieces, p) + Occurrences(ongoing_pieces, p)
            + Occurrences(have_pieces, p) = 1

\* C2: the file holds bytes for piece i iff i is in have_pieces, and the
\* bytes written are a whole piece of data matching the digest.
C2_CommitAfterValidation ==
    \A p \in PieceIdx :
        /\ (file[p] # <<>>) <=> (p \in Range(have_pieces))
        /\ file[p] # <<>> =>
              /\ Len(file[p]) = Len(pieces[p])
              /\ \A i \in 1..Len(file[p]) : file[p][i] = "good"

\* C3: the delivery that makes an ongoing piece complete and valid returns
\* normally with the piece taken out of ongoing_pieces and appended to
\* have_pieces; when every piece has been delivered valid, complete is true.
C3_ValidPieceMovesToHave ==
    [][/\ \A p \in PieceIdx :
            (/\ CallStep("on_block_complete")
             /\ call'.piece = p
             /\ CompletesValid(p, call'.offset, call'.data))
            => /\ call'.err = None
               /\ ongoing_pieces' = RemoveFirst(ongoing_pieces, p)
               /\ have_pieces' = Append(have_pieces, p)
       /\ (\A p \in PieceIdx : file'[p] # <<>>) => complete'
      ]_vars

Lists(d) == <<d.missing_pieces, d.ongoing_pieces, d.have_pieces, d.pending_blocks>>

\* C4: in every reachable state, for every block of the torrent, a second
\* on_block_complete with the same block leaves the four collections as the
\* first call left them and raises nothing.
C4_DuplicateTolerance ==
    \A p \in PieceIdx, off \in Offsets, data \in DataValues :
        HasBlock(p, off) =>
            LET once == on_block_complete(DM, NoIndex, p, off, data)
                twice == on_block_complete(once.dm, NoIndex, p, off, data)
            IN  /\ Lists(twice.dm) = Lists(once.dm)
                /\ twice.err = None

\* C4 witness: a block of a piece that is already written and out of
\* ongoing_pieces has been delivered again, with the same good data.
C4_Witness ==
    /\ call.op = "on_block_complete"
    /\ call.data = "good"
    /\ call.err = None
    /\ HasBlock(call.piece, call.offset)
    /\ file[call.piece] # <<>>
    /\ call.piece \notin Range(ongoing_pieces)

\* the request, in insertion order, that the spec's step 1 would re-issue
Expired(r) == r.added + MAX_PENDING_MS < now

FirstExpired(peer) ==
    FirstIndex(pending_blocks, LAMBDA r : Expired(r) /\ r.piece \in peers[peer])

\* C5: next_request by a registered peer that has the piece of an expired
\* pending request returns the first such request's block and stamps the
\* request with the current time.
C5_TimeoutReissue ==
    [][\A peer \in DOMAIN peers :
          (/\ CallStep("next_request")
           /\ call'.peer = peer
           /\ FirstExpired(peer) # 0)
          => LET i == FirstExpired(peer)
                 r == pending_blocks[i]
             IN  /\ call'.err = None
                 /\ call'.ret = [piece |-> r.piece, offset |-> r.offset]
                 /\ pending_blocks' = [pending_blocks EXCEPT ![i].added = now]
      ]_vars

HasMissing(p) == \E i \in 1..Len(pieces[p]) : pieces[p][i].status = Missing

FirstOngoingFor(peer) ==
    FirstIndex(ongoing_pieces, LAMBDA p : p \in peers[peer] /\ HasMissing(p))

FirstMissingFor(peer) ==
    FirstIndex(missing_pieces, LAMBDA p : p \in peers[peer])

\* C9: with no expired pending request, next_request by a registered peer
\* returns a Missing block of the earliest ongoing piece the peer has that
\* has one; else it moves the earliest missing piece the peer has to
\* ongoing_pieces and returns a block of it; it returns none only when
\* neither exists.
C9_SelectionOrder ==
    [][\A peer \in DOMAIN peers :
          (/\ CallStep("next_request")
           /\ call'.peer = peer
           /\ \A i \in 1..Len(pending_blocks) : ~Expired(pending_blocks[i]))
          => /\ call'.err = None
             /\ IF FirstOngoingFor(peer) # 0
                THEN LET p == ongoing_pieces[FirstOngoingFor(peer)]
                     IN  /\ call'.ret.piece = p
                         /\ \E i \in 1..Len(pieces[p]) :
                               /\ pieces[p][i].offset = call'.ret.offset
                               /\ pieces[p][i].status = Missing
                         /\ missing_pieces' = missing_pieces
                ELSE IF FirstMissingFor(peer) # 0
                THEN LET p == missing_pieces[FirstMissingFor(peer)]
                     IN  /\ call'.ret.piece = p
                         /\ p \notin Range(missing_pieces')
                         /\ ongoing_pieces' = Append(ongoing_pieces, p)
                ELSE call'.ret = NoBlock
      ]_vars

\* C10: a delivery that completes an ongoing piece with data not matching
\* the digest sets every block of the piece to Missing with no data, keeps
\* the piece in ongoing_pieces and writes nothing; the blocks are handed
\* out again, and the delivery that then completes the piece with the
\* correct bytes puts it in have_pieces.
C10_MismatchThenRecovery ==
    [][\A p \in PieceIdx :
          /\ (/\ CallStep("on_block_complete")
              /\ call'.piece = p
              /\ Completes(p, call'.offset)
              /\ ~CompletesValid(p, call'.offset, call'.data))
             => /\ \A i \in 1..Len(pieces[p]) :
                      /\ pieces'[p][i].status = Missing
                      /\ pieces'[p][i].data = None
                /\ p \in Range(ongoing_pieces')
                /\ file' = file
          /\ (/\ CallStep("next_request")
              /\ call'.peer \in DOMAIN peers
              /\ p \in Range(ongoing_pieces)
              /\ p \in peers[call'.peer]
              /\ \A q \in Range(ongoing_pieces) \cup Range(missing_pieces) : q = p
              /\ HasMissing(p))
             => /\ call'.err = None
                /\ call'.ret.piece = p
          /\ (/\ CallStep("on_block_complete")
              /\ call'.piece = p
              /\ \E i \in 1..Len(pieces[p]) : pieces[p][i].data = "bad"
              /\ CompletesValid(p, call'.offset, call'.data))
             => p \in Range(have_pieces')
      ]_vars

\* ------------------------------------------------------------ PeerConnection

\* PeerState values; stop() appends the enum member itself, which is not
\* equal to its value 'stopped'
Choked == "choked"
Interested == "interested"
Stopped == "stopped"
PendingRequest == "pending_request"
PeerState_Stopped == "PeerState.Stopped"

\* a message as PeerStreamIterator hands it to handle_message
SMsg(kind, index, begin, block, bitfield) ==
    [kind |-> kind, index |-> index, begin |-> begin, block |-> block,
     bitfield |-> bitfield]

Plain(kind) == SMsg(kind, NoIndex, NoIndex, None, {})

SessionMsgs ==
    {Plain(k) : k \in {"KeepAlive", "Choke", "Unchoke", "Interested",
                       "NotInterested", "Request", "Cancel"}}
    \cup {SMsg("Have", i, NoIndex, None, {}) : i \in PieceIdx}
    \cup {SMsg("BitField", NoIndex, NoIndex, None, b) : b \in SUBSET PieceIdx}
    \cup {SMsg("Piece", i, o, d, {}) : i \in PieceIdx, o \in Offsets, d \in DataValues}

\* can_request with the Choked test left out
can_request_unchecked(cs) == Interested \in Range(cs)

\* PeerConnection.can_request
can_request(cs) == Choked \notin Range(cs) /\ Interested \in Range(cs)

\* PeerConnection.handle_message, the branch of the message's type:
\* [cs, dm, out, err], out the kinds of the messages written
handle_branch(cs, d, rid, m) ==
    LET same == [cs |-> cs, dm |-> d, out |-> <<>>, err |-> None]
    IN  CASE m.kind = "Interested" -> [same EXCEPT !.cs = Append(cs, Interested)]
          [] m.kind = "NotInterested" -> [same EXCEPT !.cs = RemoveFirst(cs, Interested)]
          [] m.kind = "Choke" -> [same EXCEPT !.cs = Append(cs, Choked)]
          [] m.kind = "Unchoke" -> [same EXCEPT !.cs = RemoveFirst(cs, Choked)]
          \* download_manager.update_peer: DownloadManager has no such method
          [] m.kind = "Have" -> [same EXCEPT !.err = "AttributeError"]
          [] m.kind = "BitField" ->
                [same EXCEPT !.out = IF Interested \notin Range(cs)
                                     THEN <<"interested">> ELSE <<>>,
                             !.dm = add_peer(d, rid, m.bitfield)]
          [] m.kind = "Piece" ->
                IF PendingRequest \notin Range(cs)
                THEN [same EXCEPT !.err = "ValueError"]
                ELSE LET r == on_block_complete(d, rid, m.index, m.begin, m.block)
                     IN  [cs |-> RemoveFirst(cs, PendingRequest), dm |-> r.dm,
                          out |-> <<>>, err |-> r.err]
          [] OTHER -> same

\* handle_message: current_state.append(PendingRequest), then send_request
\* with the block r that next_request chose
requested(h, r) ==
    [cs |-> Append(h.cs, PendingRequest),
     dm |-> r.dm,
     out |-> h.out \o (IF r.err = None /\ r.block # NoBlock
                       THEN <<"request">> ELSE <<>>),
     err |-> r.err]

\* handle_message: what follows the branch h of the message's type
after_branch(h, rid, current) ==
    IF h.err # None THEN h
    ELSE IF can_request(h.cs) /\ PendingRequest \notin Range(h.cs)
    THEN requested(h, next_request(h.dm, rid, current))
    ELSE h

\* PeerConnection.handle_message, the body of the loop for one message:
\* [cs, dm, out, err]
handle_message(cs, d, rid, m, current) ==
    after_branch(handle_branch(cs, d, rid, m), rid, current)

\* Client.download: the coordinator is built, the tracker's peers are queued,
\* the session's task is created
InitSession ==
    /\ torrent \in Torrents
    /\ LET d == NewDM(torrent.length, torrent.piece_length)
       IN  /\ pieces = d.pieces
           /\ missing_pieces = d.missing_pieces
           /\ ongoing_pieces = d.ongoing_pieces
           /\ have_pieces = d.have_pieces
           /\ pending_blocks = d.pending_blocks
           /\ peers = d.peers
           /\ file = d.file
    /\ now = 0
    /\ call = NoCall
    /\ MkIdle
    /\ FrIdle
    /\ pc = "start"
    /\ current_state = <<>>
    /\ remote_id = NoIndex
    /\ writer = "none"
    /\ sent = <<>>
    /\ handled = 0
    /\ rcvd_unchoke = FALSE
    /\ q_size \in 0..MaxQueue
    /\ q_unfinished = q_size

\* start: self.peer = await self.available_peers.get()
GetPeer ==
    /\ pc = "start"
    /\ Stopped \notin Range(current_state)
    /\ q_size > 0
    /\ q_size' = q_size - 1
    /\ pc' = "connecting"
    /\ UNCHANGED <<dmvars, mkvars, frvars, current_state, remote_id, writer, sent,
                   handled, rcvd_unchoke, q_unfinished>>

\* start: asyncio.open_connection; its OSError is not among the exceptions
\* start catches
Connect ==
    /\ pc = "connecting"
    /\ \/ writer' = "open" /\ pc' = "handshaking"
       \/ writer' = writer /\ pc' = "dead"
    /\ UNCHANGED <<dmvars, mkvars, frvars, current_state, remote_id, sent,
                   handled, rcvd_unchoke, q_size, q_unfinished>>

\* start: send_handshake, then current_state.append(Choked).  ProtocolError
\* is caught and the loop of start goes on; a peer that closes before
\* 68 bytes leaves the loop of send_handshake reading b'' for ever
Handshake ==
    /\ pc = "handshaking"
    /\ sent' = Append(sent, "handshake")
    /\ \/ \E rid \in PeerIds :
            /\ remote_id' = rid
            /\ current_state' = current_state \o <<Interested, Choked>>
            /\ pc' = "running"
       \/ /\ pc' \in {"start", "reading_handshake"}
          /\ UNCHANGED <<remote_id, current_state>>
    /\ UNCHANGED <<dmvars, mkvars, frvars, writer, handled, rcvd_unchoke,
                   q_size, q_unfinished>>

\* handle_message: one message of the stream; an exception leaves
\* handle_message and start, neither catches it
HandleMessage ==
    /\ pc = "running"
    /\ handled < MaxMsgs
    /\ Stopped \notin Range(current_state)
    /\ \E m \in SessionMsgs :
          LET r == handle_message(current_state, DM, remote_id, m, now)
          IN  /\ current_state' = r.cs
              /\ SetDM(r.dm)
              /\ sent' = sent \o r.out
              /\ pc' = IF r.err # None THEN "dead" ELSE "running"
              /\ rcvd_unchoke' = (rcvd_unchoke \/ m.kind = "Unchoke")
    /\ handled' = handled + 1
    /\ UNCHANGED <<torrent, now, call, mkvars, frvars, remote_id, writer,
                   q_size, q_unfinished>>

\* handle_message: the iterator ends, then cancel(): the writer is closed
\* and the queue is told task_done
StreamEnd ==
    /\ pc = "running"
    /\ writer' = "closed"
    /\ q_unfinished' = q_unfinished - 1
    /\ pc' = "done"
    /\ UNCHANGED <<dmvars, mkvars, frvars, current_state, remote_id, sent,
                   handled, rcvd_unchoke, q_size>>

\* stop(), called by Client.stop: PeerState.Stopped is appended and the task
\* is cancelled.  The CancelledError ends the iterator when the task awaits
\* its read (then cancel() runs); elsewhere it ends the task at once.
Stop ==
    /\ PeerState_Stopped \notin Range(current_state)
    /\ current_state' = Append(current_state, PeerState_Stopped)
    /\ IF pc = "running"
       THEN /\ writer' = "closed"
            /\ q_unfinished' = q_unfinished - 1
            /\ pc' = "done"
       ELSE /\ pc' = IF pc \in {"done", "dead"} THEN pc ELSE "cancelled"
            /\ UNCHANGED <<writer, q_unfinished>>
    /\ UNCHANGED <<dmvars, mkvars, frvars, remote_id, sent, handled,
                   rcvd_unchoke, q_size>>

NextSession == GetPeer \/ Connect \/ Handshake \/ HandleMessage \/ StreamEnd \/ Stop

SpecSession == InitSession /\ [][NextSession]_vars

\* the messages written in this step
NewlySent == SubSeq(sent', Len(sent) + 1, Len(sent'))

\* C6: a Request is written only when Choked is not in the session's state,
\* and never to a peer that has not sent Unchoke.
C6_ChokeGating ==
    [][(Len(sent') > Len(sent) /\ "request" \in Range(NewlySent))
          => /\ Choked \notin Range(current_state')
             /\ rcvd_unchoke'
      ]_vars

\* C6 witness: a Request has gone out, the peer's Unchoke had arrived and
\* Choked is gone from the state.
C6_Witness ==
    /\ "request" \in Range(sent)
    /\ rcvd_unchoke
    /\ Choked \notin Range(current_state)

\* ------------------------------------------------- claims on the framer, 2

\* the bytes a demand works on: the buffer, with what its read added
Avail == buffer \o SubSeq(fr_rest, 1, Len(fr_rest) - Len(fr_rest'))

\* 4 + length_prefix of the frame at the head of b, Len(b) >= 4
FrameLen(b) == 4 + UnpackU32(SubSeq(b, 1, 4))

WholeFrame(b) == Len(b) >= 4 /\ Len(b) >= FrameLen(b)

\* C11: a demand returns a message only when the buffer holds the whole
\* frame, 4 + length_prefix bytes, and then advances the buffer by exactly
\* that many bytes (keep-alives too); with an incomplete frame the bytes are
\* kept and the iterator neither stalls nor ends while the stream goes on.
C11_NoPartialFrame ==
    [][/\ Len(fr_out') > Len(fr_out) =>
            /\ WholeFrame(Avail)
            /\ buffer' = SliceFrom(Avail, FrameLen(Avail))
       /\ (Avail # <<>> /\ ~WholeFrame(Avail)) =>
            /\ buffer' = Avail
            /\ fr_state' # "hung"
            /\ fr_state' = "ended" => fr_rest' = <<>>
      ]_vars

IsSuffix(s, t) == Len(s) <= Len(t) /\ s = SliceFrom(t, Len(t) - Len(s))

\* a whole frame with an unsupported id is at the head of b
UnknownAtHead(b) == WholeFrame(b) /\ FrameLen(b) >= 5 /\ b[5] = IdUnknown

\* C12: a demand that finds a whole frame with an unknown id at the head of
\* the buffer consumes it without surfacing it and goes on with what follows:
\* the iterator does not stall, and does not end while the stream goes on.
C12_UnknownSkipped ==
    [][UnknownAtHead(Avail) =>
          /\ IsSuffix(buffer', SliceFrom(Avail, FrameLen(Avail)))
          /\ UnknownMessage \notin Range(fr_out')
          /\ fr_state' # "hung"
          /\ fr_state' = "ended" => fr_rest' = <<>>
      ]_vars

\* ---------------------------------------------- claims on the session, 2

\* the task of start() is over, its coroutine returned or raised
TaskEnded == pc \in {"done", "dead", "cancelled"}

StoppedBySupervisor == PeerState_Stopped \in Range(current_state)

\* C13: the task of a session the supervisor has not stopped never ends:
\* whatever ended its run, it is back at the start of its loop, able to pull
\* the next address from the queue.
C13_SessionRestarts ==
    ~StoppedBySupervisor => ~TaskEnded

\* the session is in no run: before its next get(), or its task is over by
\* the stream's end or by stop()
BetweenRuns == pc \in {"start", "done", "cancelled"}

\* C14: once a run has terminated (frame iterator ended, stop() by the
\* supervisor, handshake failed) the writer is closed and every address
\* pulled from the queue has had its one task_done.
C14_TerminationCleanup ==
    BetweenRuns => /\ writer # "open"
                   /\ q_unfinished = q_size

\* C15: from the call of stop() on, the value the loop of start and the
\* per-frame check of handle_message look for is in the session's state,
\* and no message is handled, no Request written and no address pulled.
C15_StopTakesEffect ==
    [][StoppedBySupervisor' =>
          /\ Stopped \in Range(current_state')
          /\ handled' = handled
          /\ "request" \notin Range(NewlySent)
          /\ q_size' = q_size
      ]_vars

\* C16: in every state where the session runs and its peer has a bitfield
\* registered, handling Have(i) raises nothing and leaves the coordinator's
\* bitfields as they were but for bit i of this peer, now set.
C16_HaveSetsBit ==
    (pc = "running" /\ remote_id \in DOMAIN peers) =>
        \A i \in PieceIdx :
            LET r == handle_message(current_state, DM, remote_id,
                                    SMsg("Have", i, NoIndex, None, {}), now)
            IN  /\ r.err = None
                /\ DOMAIN r.dm.peers = DOMAIN peers
                /\ \A q \in DOMAIN peers :
                      r.dm.peers[q] = IF q = remote_id THEN peers[q] \cup {i}
                                      ELSE peers[q]

\* ------------------------------------------ claims on the coordinator, 2

IsPending(p, off) ==
    \E i \in 1..Len(pending_blocks) :
        pending_blocks[i].piece = p /\ pending_blocks[i].offset = off

\* C17: in every reachable state each block whose status is Pending has an
\* entry in pending_blocks, the first block of a piece just moved from
\* missing_pieces to ongoing_pieces included.
C17_PendingRecorded ==
    \A p \in PieceIdx : \A k \in 1..Len(pieces[p]) :
        pieces[p][k].status = Pending => IsPending(p, pieces[p][k].offset)

\* C18: in every reachable state every entry of pending_blocks is for a
\* block of a piece that is in ongoing_pieces, never of one in
\* missing_pieces or have_pieces.
C18_PendingOnlyOngoing ==
    \A i \in 1..Len(pending_blocks) :
        /\ pending_blocks[i].piece \in Range(ongoing_pieces)
        /\ pending_blocks[i].piece \notin Range(missing_pieces)
        /\ pending_blocks[i].piece \notin Range(have_pieces)

\* C18 witness: a request is pending for one piece while another piece has
\* been validated and written, and a block was delivered that had no
\* pending request.
C18_Witness ==
    /\ pending_blocks # <<>>
    /\ \E p \in PieceIdx : file[p] # <<>> /\ p \notin Range(ongoing_pieces)
    /\ call.op = "on_block_complete"
    /\ ~IsPending(call.piece, call.offset)

\* this step is an on_block_complete that ended in piece.reset() of piece p
ResetStep(p) ==
    /\ CallStep("on_block_complete")
    /\ call'.piece = p
    /\ \A k \in 1..Len(pieces'[p]) : pieces'[p][k].status = Missing

\* C19: a block's status changes only from Missing to Pending in a
\* next_request, from Pending to Retrieved in an on_block_complete, and back
\* to Missing in the reset of its piece after a hash mismatch.
C19_BlockLifecycle ==
    [][\A p \in PieceIdx : \A k \in 1..Len(pieces[p]) :
          LET a == pieces[p][k].status
              b == pieces'[p][k].status
          IN  a # b =>
                \/ a = Missing /\ b = Pending /\ CallStep("next_request")
                \/ a = Pending /\ b = Retrieved /\ CallStep("on_block_complete")
                \/ a # Missing /\ b = Missing /\ ResetStep(p)
      ]_vars

\* ---------------------------------------------- claims on the session, 3

\* C20: in every state of a running session, handling Unchoke leaves Choked
\* out of the session's state, however many Choke messages came before; an
\* interested session can then request.
C20_UnchokeClearsChoked ==
    pc = "running" =>
        LET r == handle_message(current_state, DM, remote_id, Plain("Unchoke"), now)
        IN  /\ Choked \notin Range(r.cs)
            /\ Interested \in Range(r.cs) => can_request(r.cs)

\* ---------------------------------------------- claims on the session, 4

\* C21: in a running session that has not yet written Interested, handling
\* a BitField registers the bitfield with the coordinator and writes
\* Interested; and every Request written comes after an Interested.
C21_InterestedBeforeRequest ==
    /\ (pc = "running" /\ "interested" \notin Range(sent)) =>
          \A b \in SUBSET PieceIdx :
              LET r == handle_message(current_state, DM, remote_id,
                                      SMsg("BitField", NoIndex, NoIndex, None, b), now)
              IN  /\ remote_id \in DOMAIN r.dm.peers
                  /\ r.dm.peers[remote_id] = b
                  /\ "interested" \in Range(r.out)
    /\ \A j \in 1..Len(sent) :
          sent[j] = "request" => \E i \in 1..(j - 1) : sent[i] = "interested"

\* C22: PendingRequest enters the session's state only in a step that
\* writes a Request, and the state never holds more than one PendingRequest.
C22_PendingRequestMeansRequest ==
    [][/\ Occurrences(current_state', PendingRequest)
            > Occurrences(current_state, PendingRequest)
          => (Len(sent') > Len(sent) /\ "request" \in Range(NewlySent))
       /\ Occurrences(current_state', PendingRequest) <= 1
      ]_vars

\* a Piece message for a block that is unknown or was not asked for
Unexpected(m) ==
    \/ m.index \notin Range(ongoing_pieces)
    \/ ~HasBlock(m.index, m.begin)
    \/ PendingRequest \notin Range(current_state)

\* C23: in every state of a running session, a Piece message for an unknown
\* or unexpected block is dropped: nothing is raised, the three lists of
\* pieces and every block are as they were.
C23_UnexpectedPieceDropped ==
    pc = "running" =>
        \A m \in SessionMsgs :
            (m.kind = "Piece" /\ Unexpected(m)) =>
                LET r == handle_branch(current_state, DM, remote_id, m)
                IN  /\ r.err = None
                    /\ r.dm.missing_pieces = missing_pieces
                    /\ r.dm.ongoing_pieces = ongoing_pieces
                    /\ r.dm.have_pieces = have_pieces
                    /\ r.dm.pieces = pieces

\* ------------------------------------------ claims on the coordinator, 3

\* the block of piece p at offset off
BlockAt(bs, p, off) == bs[p][Piece_block_received(bs[p], off)]

\* this step is a next_request that returned a block
Returned == CallStep("next_request") /\ call'.ret # NoBlock

\* C24: next_request hands a block out only if it is Missing, or its pending
\* request has expired, and leaves it Pending; a block handed out becomes
\* Missing again only by the reset of its piece after a hash mismatch; and
\* pending_blocks never holds two entries for one block.
C24_NoDuplicateRequest ==
    [][/\ Returned =>
            /\ \/ BlockAt(pieces, call'.ret.piece, call'.ret.offset).status = Missing
               \/ \E i \in 1..Len(pending_blocks) :
                     /\ pending_blocks[i].piece = call'.ret.piece
                     /\ pending_blocks[i].offset = call'.ret.offset
                     /\ Expired(pending_blocks[i])
            /\ BlockAt(pieces', call'.ret.piece, call'.ret.offset).status = Pending
       /\ \A p \in PieceIdx : \A k \in 1..Len(pieces[p]) :
             (pieces[p][k].status # Missing /\ pieces'[p][k].status = Missing)
                => ResetStep(p)
       /\ \A i, j \in 1..Len(pending_blocks') :
             (/\ pending_blocks'[i].piece = pending_blocks'[j].piece
              /\ pending_blocks'[i].offset = pending_blocks'[j].offset) => i = j
      ]_vars

\* C24 witness: next_request has handed out, to the second peer, a block
\* that was delivered with corrupt data before and whose piece was reset,
\* while another block has its request pending.
C24_Witness ==
    /\ call.op = "next_request"
    /\ call.ret # NoBlock
    /\ call.peer = 2
    /\ BlockAt(pieces, call.ret.piece, call.ret.offset).data = "bad"
    /\ Len(pending_blocks) >= 1

\* C25: a block returned by next_request(peer) is of a piece in the bitfield
\* registered for that peer; for a peer without a registered bitfield
\* next_request returns none, raises nothing and changes nothing.
C25_OnlyPiecesOfPeer ==
    [][CallStep("next_request") =>
          /\ call'.ret # NoBlock =>
                /\ call'.peer \in DOMAIN peers
                /\ call'.ret.piece \in peers[call'.peer]
          /\ call'.peer \notin DOMAIN peers =>
                /\ call'.ret = NoBlock
                /\ call'.err = None
                /\ UNCHANGED <<pieces, missing_pieces, ongoing_pieces,
                               have_pieces, pending_blocks, peers, file>>
      ]_vars

\* C25 witness: next_request passed over the first missing piece, which the
\* peer does not have, and returned a block of a later one, while the other
\* peer id has no bitfield registered.
C25_Witness ==
    /\ call.op = "next_request"
    /\ call.ret # NoBlock
    /\ call.ret.piece = 1
    /\ 0 \in Range(missing_pieces)
    /\ DOMAIN peers # PeerIds

====
